---- MODULE Spec2Model ----
(***************************************************************************)
(* Model of the disassembly service: the three request handlers of         *)
(* src/server.rs, the adapters of src/disasm/{mos6502,x86,risc_v}.rs, the  *)
(* option model of src/format.rs and the error taxonomy of                 *)
(* src/disasm/mod.rs.                                                      *)
(*                                                                         *)
(* Text is modelled as a sequence of one-character strings, so that case   *)
(* folding and number formatting are computed and not assumed.  A usize or *)
(* u64 value that can exceed the checker's integer range is kept as four   *)
(* 16-bit limbs, least significant first.                                  *)
(***************************************************************************)
EXTENDS Integers, Sequences, FiniteSets, TLC

VARIABLES
    endpoint,         \* route of the last request ("none" before the first)
    payload,          \* the last request's Payload
    adapter,          \* outcome of the adapter construction in the handler
    result,           \* outcome of Disassembler::disassemble, or NotCalled
    returned,         \* what the handler returned: Ok(lines), Err(error) or a panic
    response,         \* what the boundary sent back
    overflow_checks,  \* build profile: arithmetic overflow panics (TRUE) or wraps
    truncation        \* what the rs6502 engine did with an instruction cut off by
                      \* the end of the last request's buffer ("none": none met)

vars ==
    <<endpoint, payload, adapter, result, returned, response, overflow_checks,
      truncation>>

---------------------------------------------------------------------------
(* Bounds of the model. *)

\* longest byte buffer of a request
MaxLen == 3

\* largest small stop_at value enumerated (0 .. MaxStop)
MaxStop == 2

---------------------------------------------------------------------------
(* Characters and case folding. *)

UpperLetters ==
    <<"A","B","C","D","E","F","G","H","I","J","K","L","M",
      "N","O","P","Q","R","S","T","U","V","W","X","Y","Z">>

LowerLetters ==
    <<"a","b","c","d","e","f","g","h","i","j","k","l","m",
      "n","o","p","q","r","s","t","u","v","w","x","y","z">>

\* u8::to_ascii_lowercase on one character
CharToLower(c) ==
    IF \E i \in 1..26 : UpperLetters[i] = c
    THEN LowerLetters[CHOOSE i \in 1..26 : UpperLetters[i] = c]
    ELSE c

\* u8::to_ascii_uppercase on one character
CharToUpper(c) ==
    IF \E i \in 1..26 : LowerLetters[i] = c
    THEN UpperLetters[CHOOSE i \in 1..26 : LowerLetters[i] = c]
    ELSE c

\* str::to_ascii_lowercase
to_ascii_lowercase(s) == [i \in 1..Len(s) |-> CharToLower(s[i])]

\* the formatter's upper-casing of mnemonics and keywords
to_ascii_uppercase(s) == [i \in 1..Len(s) |-> CharToUpper(s[i])]

RECURSIVE Spaces(_)
Spaces(n) == IF n <= 0 THEN <<>> ELSE <<" ">> \o Spaces(n - 1)

---------------------------------------------------------------------------
(* Hexadecimal rendering. *)

HexUpper == <<"0","1","2","3","4","5","6","7","8","9","A","B","C","D","E","F">>
HexLower == <<"0","1","2","3","4","5","6","7","8","9","a","b","c","d","e","f">>

\* {:02X} / {:02x} of a byte, {:04X} / {:04x} of a 16-bit value
Hex2(digits, b) == <<digits[(b \div 16) + 1], digits[(b % 16) + 1]>>
Hex4(digits, w) == Hex2(digits, w \div 256) \o Hex2(digits, w % 256)

\* the 16 hexadecimal digits of a 64-bit value held as limbs
Hex16(digits, v) ==
    Hex4(digits, v[4]) \o Hex4(digits, v[3]) \o Hex4(digits, v[2]) \o Hex4(digits, v[1])

RECURSIVE StripZeros(_, _)
\* drops leading zeros while more than `min` digits remain
StripZeros(s, min) ==
    IF Len(s) > min /\ s[1] = "0" THEN StripZeros(Tail(s), min) ELSE s

---------------------------------------------------------------------------
(* 64-bit unsigned arithmetic on limbs. *)

Limb == 2^16

U64(n) == <<n % Limb, (n \div Limb) % Limb, 0, 0>>

\* a + n for a small n >= 0: the wrapped sum and whether it left 64 bits
U64Add(a, n) ==
    LET s1 == a[1] + n
        s2 == a[2] + (s1 \div Limb)
        s3 == a[3] + (s2 \div Limb)
        s4 == a[4] + (s3 \div Limb)
    IN  [val |-> <<s1 % Limb, s2 % Limb, s3 % Limb, s4 % Limb>>,
         overflow |-> s4 >= Limb]

---------------------------------------------------------------------------
(* src/lib.rs and src/format.rs: bit widths and output options. *)

\* enum BitWidth, by its discriminant
BitWidth == {8, 16, 32, 64}

\* Display for BitWidth
BitWidth_fmt(w) ==
    CASE w = 8  -> <<"8"," ","b","i","t">>
      [] w = 16 -> <<"1","6"," ","b","i","t">>
      [] w = 32 -> <<"3","2"," ","b","i","t">>
      [] w = 64 -> <<"6","4"," ","b","i","t">>

\* enum ShowAddress
ShowAddress_None == [tag |-> "None"]
ShowAddress_Start(offset) == [tag |-> "Start", offset |-> offset]

\* Option<usize> of stop_at
NoStop == [some |-> FALSE]
SomeStop(n) == [some |-> TRUE, val |-> n]

\* AssemblerOutput::default
AssemblerOutput_default ==
    [address |-> ShowAddress_Start(U64(0)), stop_at |-> NoStop, upper_case |-> TRUE,
     cycles |-> FALSE, symbol_table |-> FALSE]

\* the builder methods of AssemblerOutput
with_addresses(o, a) == [o EXCEPT !.address = a]
with_upper_case(o, c) == [o EXCEPT !.upper_case = c]
with_cycles(o, c) == [o EXCEPT !.cycles = c]
with_symbol_table(o) == [o EXCEPT !.symbol_table = TRUE]
with_stop(o, n) == [o EXCEPT !.stop_at = SomeStop(n)]

---------------------------------------------------------------------------
(* src/disasm/mod.rs: the error taxonomy and the results of an adapter. *)

UnsupportedOption == [kind |-> "UnsupportedOption"]
Unimplemented == [kind |-> "Unimplemented"]
MissingInfo == [kind |-> "MissingInfo"]
WrongBitWidth(w) == [kind |-> "WrongBitWidth", width |-> w]
Arch(e) == [kind |-> "Arch", arch |-> e]

\* x86::Error::UnsupportedSyntax
UnsupportedSyntax(s) == [kind |-> "UnsupportedSyntax", str |-> s]

Ok(v) == [tag |-> "Ok", val |-> v]
Err(e) == [tag |-> "Err", err |-> e]
\* the call unwound with a panic and returned nothing
Panicked == [tag |-> "Panic"]
\* the handler returned before reaching the call
NotCalled == [tag |-> "NotCalled"]

---------------------------------------------------------------------------
(* src/disasm/risc_v.rs *)

\* RiscV::new
RiscV_new(width) ==
    IF width \in {16, 32} THEN Ok([arch |-> "RiscV", width |-> width])
    ELSE Err(WrongBitWidth(width))

\* mutant: the stub validates the options like the other adapters
RiscV_disassemble_validating(self, bytes, options) ==
    IF options.symbol_table \/ options.cycles THEN Err(UnsupportedOption)
    ELSE Err(Unimplemented)

\* <RiscV as Disassembler>::disassemble
RiscV_disassemble(self, bytes, options) == Err(Unimplemented)

---------------------------------------------------------------------------
(* src/disasm/mos6502.rs, with the rs6502 engine it drives.  The engine is  *)
(* modelled on three opcodes: BRK (00, implied), JSR (20, absolute) and    *)
(* LDA (A9, immediate).  What the engine does with an instruction whose    *)
(* operand bytes lie past the end of the buffer is not fixed by this       *)
(* repository: the adapter hands every buffer to the engine unchecked, and *)
(* the outcome is one of Truncations.                                      *)

Mos6502Bytes == {0, 32, 169}

\* instruction length of an opcode
Mos6502_length(op) == CASE op = 0 -> 1 [] op = 169 -> 2 [] op = 32 -> 3

\* the engine's outcomes on an instruction cut off by the end of the buffer:
\* a panic on the missing operand, a line of the bytes that are there with no
\* mnemonic (the layout of an unknown opcode), or no line at all
Truncations == {"Panic", "Bytes", "Dropped"}

\* the instruction at position i runs past the end of the buffer
Mos6502_cut(bytes, i) == i + Mos6502_length(bytes[i]) - 1 > Len(bytes)

RECURSIVE Mos6502_complete(_, _)
\* the buffer ends on an instruction boundary when decoded from position i
Mos6502_complete(bytes, i) ==
    IF i > Len(bytes) THEN i = Len(bytes) + 1
    ELSE Mos6502_complete(bytes, i + Mos6502_length(bytes[i]))

\* rs6502::Disassembler::with_code_only / with_offset
with_code_only == [disable_offsets |-> TRUE, disable_opcodes |-> TRUE, code_offset |-> 0]
with_offset(offset) ==
    [disable_offsets |-> FALSE, disable_opcodes |-> FALSE, code_offset |-> offset]

\* mnemonic and operand of the instruction at position i (1-based)
Mos6502_text(bytes, i) ==
    CASE bytes[i] = 0   -> <<"B","R","K">>
      [] bytes[i] = 169 -> <<"L","D","A"," ","#","$">> \o Hex2(HexUpper, bytes[i + 1])
      [] bytes[i] = 32  -> <<"J","S","R"," ","$">> \o Hex2(HexUpper, bytes[i + 2])
                                                   \o Hex2(HexUpper, bytes[i + 1])

RECURSIVE Mos6502_raw(_, _, _)
\* the instruction's bytes in hexadecimal, separated by spaces
Mos6502_raw(bytes, i, n) ==
    IF n = 0 THEN <<>>
    ELSE Hex2(HexUpper, bytes[i]) \o (IF n = 1 THEN <<>> ELSE <<" ">>)
         \o Mos6502_raw(bytes, i + 1, n - 1)

\* one line of the engine's listing, with the line terminator it appends
Mos6502_line(disasm, bytes, i, addr) ==
    LET n == Mos6502_length(bytes[i])
        raw == Mos6502_raw(bytes, i, n)
    IN  (IF disasm.disable_offsets THEN <<>> ELSE Hex4(HexUpper, addr) \o <<" ">>)
        \o (IF disasm.disable_opcodes THEN <<>>
            ELSE raw \o Spaces(8 - Len(raw)) \o <<" ">>)
        \o Mos6502_text(bytes, i) \o <<"\n">>

\* the engine's line for the bytes left of a cut-off instruction: the address
\* and the bytes, no mnemonic
Mos6502_line_bytes(disasm, bytes, i, addr) ==
    (IF disasm.disable_offsets THEN <<>> ELSE Hex4(HexUpper, addr))
    \o (IF disasm.disable_opcodes THEN <<>>
        ELSE <<" ">> \o Mos6502_raw(bytes, i, Len(bytes) - i + 1))
    \o <<"\n">>

RECURSIVE disassemble_with_addresses(_, _, _, _, _)
\* rs6502::Disassembler::disassemble_with_addresses from position i: the
\* (line, address) pairs, the address a u16 counted from code_offset; `cut` is
\* the engine's outcome on an instruction cut off by the end of the buffer
disassemble_with_addresses(disasm, bytes, i, checks, cut) ==
    IF i > Len(bytes) THEN [panic |-> FALSE, items |-> <<>>]
    ELSE IF Mos6502_cut(bytes, i) /\ cut = "Panic" THEN [panic |-> TRUE, items |-> <<>>]
    ELSE IF Mos6502_cut(bytes, i) /\ cut = "Dropped" THEN [panic |-> FALSE, items |-> <<>>]
    ELSE LET sum == disasm.code_offset + (i - 1)
             rest == disassemble_with_addresses(disasm, bytes,
                                                i + Mos6502_length(bytes[i]), checks, cut)
             line == IF Mos6502_cut(bytes, i)
                     THEN Mos6502_line_bytes(disasm, bytes, i, sum % Limb)
                     ELSE Mos6502_line(disasm, bytes, i, sum % Limb)
         IN  IF sum >= Limb /\ checks THEN [panic |-> TRUE, items |-> <<>>]
             ELSE [panic |-> rest.panic,
                   items |-> IF rest.panic THEN <<>>
                             ELSE <<[line |-> line, addr |-> sum % Limb]>> \o rest.items]

\* the take_while closure of mos6502.rs: usize::from(*addr) <= stop
Mos6502_keeps(item, stop) == IF stop.some THEN item.addr <= stop.val ELSE TRUE

RECURSIVE take_while_stop(_, _)
\* Iterator::take_while
take_while_stop(items, stop) ==
    IF items = <<>> THEN <<>>
    ELSE IF Mos6502_keeps(items[1], stop)
         THEN <<items[1]>> \o take_while_stop(Tail(items), stop)
         ELSE <<>>

\* String::pop
pop(line) == SubSeq(line, 1, Len(line) - 1)

\* the map closure of mos6502.rs
Mos6502_map(item, options) ==
    IF options.upper_case THEN pop(item.line) ELSE to_ascii_lowercase(pop(item.line))

\* mutant: the symbol table is not looked at
Mos6502_unsupported_cycles_only(options) == options.cycles

\* the option check at the entry of Mos6502::disassemble
Mos6502_unsupported(options) == options.symbol_table \/ options.cycles

\* <Mos6502 as Disassembler>::disassemble
Mos6502_disassemble(bytes, options, checks, cut) ==
    IF Mos6502_unsupported(options) THEN Err(UnsupportedOption)
    ELSE LET disasm == IF options.address.tag = "None" THEN with_code_only
                       ELSE with_offset(options.address.offset[1])
             decoded == disassemble_with_addresses(disasm, bytes, 1, checks, cut)
             kept == take_while_stop(decoded.items, options.stop_at)
         IN  IF decoded.panic THEN Panicked
             ELSE Ok([k \in 1..Len(kept) |-> Mos6502_map(kept[k], options)])

---------------------------------------------------------------------------
(* src/disasm/x86.rs, with the iced_x86 decoder and formatters it drives.  *)
(* The engine is modelled on two opcodes: NOP (90) and JG rel8 (7F); a 7F  *)
(* with no operand byte left decodes as an invalid instruction.            *)

X86Bytes == {127, 144}

Intel == "Intel"
Att == "Att"

\* Syntax::default
Syntax_default == Intel

\* mutant: the error carries the lower-cased string
Syntax_from_str_lowered(s) ==
    LET l == to_ascii_lowercase(s)
    IN  CASE l = <<"i","n","t","e","l">> -> Ok(Intel)
          [] l = <<"a","t","t">> \/ l = <<"a","t","&","t">> -> Ok(Att)
          [] OTHER -> Err(UnsupportedSyntax(l))

\* <Syntax as FromStr>::from_str
Syntax_from_str(s) ==
    LET l == to_ascii_lowercase(s)
    IN  CASE l = <<"i","n","t","e","l">> -> Ok(Intel)
          [] l = <<"a","t","t">> \/ l = <<"a","t","&","t">> -> Ok(Att)
          [] OTHER -> Err(UnsupportedSyntax(s))

\* mutant: the 8-bit width is accepted
X86_new_any_width(syntax, width) ==
    IF width \in {8, 16, 32, 64}
    THEN Ok([arch |-> "X86", syntax |-> syntax, width |-> width])
    ELSE Err(WrongBitWidth(width))

\* X86::new
X86_new(syntax, width) ==
    IF width \in {16, 32, 64}
    THEN Ok([arch |-> "X86", syntax |-> syntax, width |-> width])
    ELSE Err(WrongBitWidth(width))

\* the target of a short jump at ip with displacement byte rel8, in `width` bits
X86_target(ip, rel8, width) ==
    LET v == ip + 2 + (IF rel8 >= 128 THEN rel8 - 256 ELSE rel8)
        full == IF v >= 0 THEN U64(v) ELSE <<Limb + v, Limb - 1, Limb - 1, Limb - 1>>
    IN  [k \in 1..4 |-> IF 16 * k <= width THEN full[k] ELSE 0]

\* Decoder::decode_out at byte position pos (0-based); ip is the position
X86_decode(bytes, pos, width) ==
    LET op == bytes[pos + 1]
    IN  CASE op = 144 -> [ip |-> pos, len |-> 1, code |-> "Nop"]
          [] op = 127 /\ pos + 2 <= Len(bytes) ->
                [ip |-> pos, len |-> 2, code |-> "Jg",
                 target |-> X86_target(pos, bytes[pos + 2], width)]
          [] OTHER -> [ip |-> pos, len |-> Len(bytes) - pos, code |-> "Invalid"]

\* the formatter's case for mnemonics and keywords (set_uppercase_all)
X86_case(text, upper) == IF upper THEN to_ascii_uppercase(text) ELSE text

\* a branch target as the formatter writes it: upper-case hexadecimal digits
\* padded to the operand size, with the syntax's prefix or suffix
X86_number(syntax, target, width) ==
    LET all == Hex16(HexUpper, target)
        digits == SubSeq(all, 17 - width \div 4, 16)
    IN  IF syntax = Intel
        THEN (IF digits[1] \in {"A","B","C","D","E","F"} THEN <<"0">> ELSE <<>>)
             \o digits \o <<"h">>
        ELSE <<"0","x">> \o digits

\* Formatter::format of IntelFormatter / GasFormatter
X86_format(self, instruction, upper) ==
    CASE instruction.code = "Nop" -> X86_case(<<"n","o","p">>, upper)
      [] instruction.code = "Invalid" -> X86_case(<<"(","b","a","d",")">>, upper)
      [] instruction.code = "Jg" ->
            X86_case(IF self.syntax = Intel
                     THEN <<"j","g"," ","s","h","o","r","t"," ">>
                     ELSE <<"j","g"," ">>, upper)
            \o X86_number(self.syntax, instruction.target, self.width)

\* mutant: the boundary is inclusive
X86_stops_after(options, instruction) ==
    options.stop_at.some /\ instruction.ip > options.stop_at.val

\* mutant: the displayed address is compared with the stop value
X86_stops_displayed(options, instruction) ==
    /\ options.stop_at.some
    /\ IF options.address.tag = "None" THEN instruction.ip >= options.stop_at.val
       ELSE LET shown == U64Add(options.address.offset, instruction.ip).val
            IN  shown[4] > 0 \/ shown[3] > 0 \/ shown[2] > 0
                \/ shown[1] >= options.stop_at.val

\* instruction.ip() >= stop as u64
X86_stops(options, instruction) ==
    options.stop_at.some /\ instruction.ip >= options.stop_at.val

\* format!("0x{ip:08X} {output}") / format!("0x{ip:08x} {output}")
X86_address_line(ip, output, upper) ==
    <<"0","x">> \o StripZeros(Hex16(IF upper THEN HexUpper ELSE HexLower, ip), 8)
    \o <<" ">> \o output

\* one pushed line: the displayed address is instruction.ip() + offset as u64
X86_line(self, options, instruction) ==
    LET output == X86_format(self, instruction, options.upper_case)
    IN  IF options.address.tag = "Start"
        THEN LET ip == U64Add(options.address.offset, instruction.ip)
             IN  [overflow |-> ip.overflow,
                  line |-> X86_address_line(ip.val, output, options.upper_case)]
        ELSE [overflow |-> FALSE, line |-> output]

\* Decoder::can_decode
can_decode(bytes, pos) == pos < Len(bytes)

RECURSIVE X86_instructions(_, _, _)
\* every instruction the decoder yields from byte position pos to the end
X86_instructions(bytes, pos, width) ==
    IF ~can_decode(bytes, pos) THEN <<>>
    ELSE LET instruction == X86_decode(bytes, pos, width)
         IN  <<instruction>> \o X86_instructions(bytes, pos + instruction.len, width)

RECURSIVE X86_loop(_, _, _, _, _)
\* the decode loop of X86::disassemble from byte position pos
X86_loop(self, bytes, options, pos, checks) ==
    IF ~can_decode(bytes, pos) THEN [panic |-> FALSE, res |-> <<>>]
    ELSE LET instruction == X86_decode(bytes, pos, self.width)
         IN  IF X86_stops(options, instruction) THEN [panic |-> FALSE, res |-> <<>>]
             ELSE LET l == X86_line(self, options, instruction)
                      rest == X86_loop(self, bytes, options, pos + instruction.len, checks)
                  IN  IF (l.overflow /\ checks) \/ rest.panic
                      THEN [panic |-> TRUE, res |-> <<>>]
                      ELSE [panic |-> FALSE, res |-> <<l.line>> \o rest.res]

\* the option check at the entry of X86::disassemble
X86_unsupported(options) == options.symbol_table \/ options.cycles

\* mutant: an empty listing is reported as an error
X86_disassemble_empty_is_error(self, bytes, options, checks) ==
    IF X86_unsupported(options) THEN Err(UnsupportedOption)
    ELSE LET out == X86_loop(self, bytes, options, 0, checks)
         IN  IF out.panic THEN Panicked
             ELSE IF out.res = <<>> THEN Err(MissingInfo) ELSE Ok(out.res)

\* <X86 as Disassembler>::disassemble
X86_disassemble(self, bytes, options, checks) ==
    IF X86_unsupported(options) THEN Err(UnsupportedOption)
    ELSE LET out == X86_loop(self, bytes, options, 0, checks)
         IN  IF out.panic THEN Panicked ELSE Ok(out.res)

---------------------------------------------------------------------------
(* The boundary: Display and IntoResponse of the errors. *)

\* Display for x86::Error
Error_to_string(e) ==
    CASE e.kind = "UnsupportedSyntax" -> <<"Unsupported syntax: ">> \o e.str
      [] e.kind = "Iced" -> <<"Iced disassembler error">>

\* Display for DisasmError; Arch is transparent
to_string(e) ==
    CASE e.kind = "UnsupportedOption" -> <<"Unsupported disassembler option">>
      [] e.kind = "Unimplemented" -> <<"The implementation has not been done">>
      [] e.kind = "MissingInfo" -> <<"Missing disassembler option">>
      [] e.kind = "WrongBitWidth" ->
            <<"Invalid architecture bit width: ">> \o BitWidth_fmt(e.width)
      [] e.kind = "Arch" -> Error_to_string(e.arch)

NOT_IMPLEMENTED == "501 Not Implemented"
BAD_REQUEST == "400 Bad Request"
OK == "200 OK"

\* <x86::Error as IntoResponse>::into_response: the String's own response
Error_into_response(e) ==
    [status |-> OK, body |-> [kind |-> "Text", value |-> Error_to_string(e)]]

\* mutant: Unimplemented is classified as a bad request
DisasmError_into_response_unimplemented_400(e) ==
    IF e.kind = "Arch" THEN Error_into_response(e.arch)
    ELSE [status |-> IF e.kind = "UnsupportedOption" THEN NOT_IMPLEMENTED ELSE BAD_REQUEST,
          body |-> [kind |-> "Json", value |-> to_string(e)]]

\* <DisasmError<E> as IntoResponse>::into_response
DisasmError_into_response(e) ==
    IF e.kind = "Arch" THEN Error_into_response(e.arch)
    ELSE [status |-> IF e.kind \in {"UnsupportedOption", "Unimplemented"}
                     THEN NOT_IMPLEMENTED ELSE BAD_REQUEST,
          body |-> [kind |-> "Json", value |-> to_string(e)]]

\* the response of a handler returning r; a panicking handler sends none
respond(r) ==
    CASE r.tag = "Ok" -> [status |-> OK, body |-> [kind |-> "Json", value |-> r.val]]
      [] r.tag = "Err" -> DisasmError_into_response(r.err)
      [] r.tag = "Panic" -> [status |-> "aborted"]

---------------------------------------------------------------------------
(* src/server.rs: the handlers.  Each yields the adapter construction's    *)
(* outcome, the outcome of disassemble and what the handler returns.       *)

NoSyntax == [some |-> FALSE]
SomeSyntax(s) == [some |-> TRUE, str |-> s]

\* handle_mos6502
handle_mos6502(p, checks, cut) ==
    LET res == Mos6502_disassemble(p.bytes, p.format, checks, cut)
    IN  [adapter |-> Ok([arch |-> "Mos6502"]), result |-> res, returned |-> res]

\* handle_risc_v
handle_risc_v(p, checks) ==
    LET disasm == RiscV_new(p.width)
    IN  IF disasm.tag = "Err"
        THEN [adapter |-> disasm, result |-> NotCalled, returned |-> disasm]
        ELSE LET res == RiscV_disassemble(disasm.val, p.bytes, p.format)
             IN  [adapter |-> disasm, result |-> res, returned |-> res]

\* handle_x86
handle_x86(p, checks) ==
    LET syntax == IF p.syntax.some THEN Syntax_from_str(p.syntax.str)
                  ELSE Ok(Syntax_default)
    IN  IF syntax.tag = "Err"
        THEN [adapter |-> NotCalled, result |-> NotCalled,
              returned |-> Err(Arch(syntax.err))]
        ELSE LET disasm == X86_new(syntax.val, p.width)
             IN  IF disasm.tag = "Err"
                 THEN [adapter |-> disasm, result |-> NotCalled, returned |-> disasm]
                 ELSE LET res == X86_disassemble(disasm.val, p.bytes, p.format, checks)
                      IN  [adapter |-> disasm, result |-> res, returned |-> res]

\* the routes of main.rs
Handle(route, p, checks, cut) ==
    CASE route = "/mos6502" -> handle_mos6502(p, checks, cut)
      [] route = "/x86" -> handle_x86(p, checks)
      [] route = "/risc_v" -> handle_risc_v(p, checks)

---------------------------------------------------------------------------
(* The requests enumerated. *)

Buffers(alphabet) == UNION {[1..n -> alphabet] : n \in 0..MaxLen}

\* start offsets: 0, 0xFFFE, 0x10002, 0xFFFFFFFF and usize::MAX
Offsets ==
    {U64(0), <<Limb - 2, 0, 0, 0>>, <<2, 1, 0, 0>>, <<Limb - 1, Limb - 1, 0, 0>>,
     <<Limb - 1, Limb - 1, Limb - 1, Limb - 1>>}

Addresses == {ShowAddress_None} \cup {ShowAddress_Start(o) : o \in Offsets}

Stops == {NoStop} \cup {SomeStop(n) : n \in 0..MaxStop} \cup {SomeStop(Limb - 1)}

Formats ==
    [address : Addresses, stop_at : Stops, upper_case : BOOLEAN, cycles : BOOLEAN,
     symbol_table : BOOLEAN]

Syntaxes ==
    {NoSyntax, SomeSyntax(<<"i","n","t","e","l">>), SomeSyntax(<<"a","t","t">>),
     SomeSyntax(<<"A","T","&","T">>), SomeSyntax(<<"n","a","s","m">>),
     SomeSyntax(<<"I","n","T","e","L">>), SomeSyntax(<<"N","a","s","m">>)}

\* the syntax selector sent to the endpoints that never read the field: none,
\* as in the requests of the repository's tests
SyntaxesUnread == {NoSyntax}

Payloads(alphabet, syntaxes) ==
    {[bytes |-> b, width |-> w, syntax |-> s, format |-> f] :
        b \in Buffers(alphabet), w \in BitWidth, s \in syntaxes, f \in Formats}

---------------------------------------------------------------------------
(* The state machine: one action per endpoint. *)

Init ==
    /\ endpoint = "none"
    /\ payload = [bytes |-> <<>>, width |-> 8, syntax |-> NoSyntax,
                  format |-> AssemblerOutput_default]
    /\ adapter = NotCalled
    /\ result = NotCalled
    /\ returned = NotCalled
    /\ response = [status |-> "none"]
    /\ overflow_checks \in BOOLEAN
    /\ truncation = "none"

\* the server is idle between requests
Idle == endpoint = "none"

Serve(route, p, h) ==
    /\ endpoint' = route
    /\ payload' = p
    /\ adapter' = h.adapter
    /\ result' = h.result
    /\ returned' = h.returned
    /\ response' = respond(h.returned)
    /\ UNCHANGED overflow_checks

\* the engine's outcomes that request p can meet: one of Truncations when the
\* engine is reached with a buffer ending inside an instruction
Mos6502_outcomes(p) ==
    IF Mos6502_unsupported(p.format) \/ Mos6502_complete(p.bytes, 1) THEN {"none"}
    ELSE Truncations

\* POST /mos6502, any buffer
HandleMos6502 ==
    /\ Idle
    /\ \E p \in Payloads(Mos6502Bytes, SyntaxesUnread) :
          \E cut \in Mos6502_outcomes(p) :
              /\ Serve("/mos6502", p, handle_mos6502(p, overflow_checks, cut))
              /\ truncation' = cut

\* POST /risc_v
HandleRiscV ==
    /\ Idle
    /\ \E p \in Payloads(X86Bytes, SyntaxesUnread) :
          /\ Serve("/risc_v", p, handle_risc_v(p, overflow_checks))
          /\ truncation' = "none"

\* POST /x86
HandleX86 ==
    /\ Idle
    /\ \E p \in Payloads(X86Bytes, Syntaxes) :
          /\ Serve("/x86", p, handle_x86(p, overflow_checks))
          /\ truncation' = "none"

\* axum::serve: the response is sent and the server awaits the next request
Await ==
    /\ ~Idle
    /\ endpoint' = "none"
    /\ payload' = [bytes |-> <<>>, width |-> 8, syntax |-> NoSyntax,
                   format |-> AssemblerOutput_default]
    /\ adapter' = NotCalled
    /\ result' = NotCalled
    /\ returned' = NotCalled
    /\ response' = [status |-> "none"]
    /\ truncation' = "none"
    /\ UNCHANGED overflow_checks

Next == HandleMos6502 \/ HandleRiscV \/ HandleX86 \/ Await

Spec == Init /\ [][Next]_vars

---------------------------------------------------------------------------
(* Properties. *)

\* the last request reached Disassembler::disassemble of the named adapter
Called(arch) == adapter.tag = "Ok" /\ adapter.val.arch = arch /\ result.tag # "NotCalled"

Rejected == payload.format.symbol_table \/ payload.format.cycles

\* C1 as stated: every adapter, called with a symbol table or with cycles set,
\* returns Err(UnsupportedOption), whatever the other options are.
C1_EveryAdapterRejects ==
    (result.tag # "NotCalled" /\ Rejected) => result = Err(UnsupportedOption)

\* C1 amended: the Mos6502 and X86 adapters, called with a symbol table or with
\* cycles set, return Err(UnsupportedOption) and no lines, whatever the buffer,
\* address mode, stop_at and upper_case are.
C1_Mos6502AndX86Reject ==
    ((Called("Mos6502") \/ Called("X86")) /\ Rejected)
        => /\ result = Err(UnsupportedOption)
           /\ returned = result
           /\ response.body.value = <<"Unsupported disassembler option">>

C1_Witness ==
    /\ Called("Mos6502")
    /\ payload.format.symbol_table /\ ~payload.format.cycles
    /\ payload.bytes # <<>>
    /\ payload.format.stop_at.some /\ ~payload.format.upper_case
    /\ payload.format.address.tag = "None"
    /\ result = Err(UnsupportedOption)

\* C4: a constructed RiscV adapter answers Err(Unimplemented) to every buffer
\* and every options value, a symbol table or cycles included.
C4_RiscVUnimplemented ==
    (adapter.tag = "Ok" /\ adapter.val.arch = "RiscV")
        => /\ adapter.val.width \in {16, 32}
           /\ result = Err(Unimplemented)

C4_Witness ==
    /\ Called("RiscV")
    /\ payload.format.cycles /\ payload.format.symbol_table
    /\ Len(payload.bytes) = MaxLen
    /\ result = Err(Unimplemented)

\* C5 as stated: every adapter turns an empty buffer, with neither a symbol
\* table nor cycles, into Ok with no lines.
C5_EveryAdapterEmpty ==
    (result.tag # "NotCalled" /\ payload.bytes = <<>> /\ ~Rejected) => result = Ok(<<>>)

\* C5 amended: the Mos6502 and X86 adapters turn an empty buffer, with neither
\* a symbol table nor cycles, into Ok with no lines and never an error.
C5_Mos6502AndX86Empty ==
    ((Called("Mos6502") \/ Called("X86")) /\ payload.bytes = <<>> /\ ~Rejected)
        => /\ result = Ok(<<>>)
           /\ response = [status |-> OK, body |-> [kind |-> "Json", value |-> <<>>]]

C5_Witness ==
    /\ Called("X86")
    /\ payload.bytes = <<>> /\ ~Rejected
    /\ payload.format.stop_at.some /\ payload.format.address.tag = "Start"
    /\ result = Ok(<<>>)

\* the engine configuration Mos6502::disassemble selects for the last request
Mos6502_engine ==
    IF payload.format.address.tag = "None" THEN with_code_only
    ELSE with_offset(payload.format.address.offset[1])

\* the (line, address) pairs the engine decodes for the last request
Mos6502_decoded ==
    disassemble_with_addresses(Mos6502_engine, payload.bytes, 1, overflow_checks,
                               truncation).items

\* the lines returned for the decoded instructions at the indices `idx`
Mos6502_lines(idx) ==
    LET decoded == Mos6502_decoded
    IN  [k \in 1..Len(idx) |-> Mos6502_map(decoded[idx[k]], payload.format)]

RECURSIVE IndicesWhere(_, _, _)
\* the indices lo..hi that satisfy P, ascending
IndicesWhere(P(_), lo, hi) ==
    IF lo > hi THEN <<>>
    ELSE (IF P(lo) THEN <<lo>> ELSE <<>>) \o IndicesWhere(P, lo + 1, hi)

\* C2: with stop_at = S the Mos6502 adapter returns exactly the decoded
\* instructions whose address is <= S (inclusive boundary), in ascending
\* address order, the address being the byte position plus the start offset
\* truncated to 16 bits; with stop_at absent it returns every decoded
\* instruction.
C2_ExactlyUpToStop ==
    (Called("Mos6502") /\ result.tag = "Ok")
        => LET S == payload.format.stop_at
               InBound(j) == ~S.some \/ Mos6502_decoded[j].addr <= S.val
               idx == IndicesWhere(InBound, 1, Len(Mos6502_decoded))
           IN  /\ result.val = Mos6502_lines(idx)
               /\ \A j, k \in 1..Len(idx) :
                      j < k => Mos6502_decoded[idx[j]].addr < Mos6502_decoded[idx[k]].addr

\* every instruction the decoder yields for the last request's buffer
X86_decoded == X86_instructions(payload.bytes, 0, adapter.val.width)

\* the lines pushed for the decoded instructions at the indices `idx`
X86_lines(idx) ==
    LET decoded == X86_decoded
    IN  [k \in 1..Len(idx) |-> X86_line(adapter.val, payload.format, decoded[idx[k]]).line]

\* C3: with stop_at = S the X86 adapter returns exactly the decoded
\* instructions whose address is strictly below S: the loop ends before the
\* first instruction at an address >= S, and one at address S is never emitted.
C3_StrictlyBelowStop ==
    (Called("X86") /\ result.tag = "Ok" /\ payload.format.stop_at.some)
        => LET S == payload.format.stop_at.val
               decoded == X86_decoded
               Below(j) == decoded[j].ip < S
               n == Len(result.val)
           IN  /\ result.val = X86_lines(IndicesWhere(Below, 1, Len(decoded)))
               /\ \A j \in 1..n : decoded[j].ip # S
               /\ n < Len(decoded) => decoded[n + 1].ip >= S

C3_Witness ==
    /\ Called("X86") /\ result.tag = "Ok" /\ payload.format.stop_at.some
    /\ Len(result.val) >= 1
    /\ Len(result.val) < Len(X86_decoded)
    /\ X86_decoded[Len(result.val) + 1].ip = payload.format.stop_at.val

\* the failure conditions of the last request, as the taxonomy names them
Cond_UnsupportedOption == ~Idle /\ Rejected
Cond_Unimplemented == endpoint = "/risc_v"
Cond_WrongBitWidth ==
    \/ endpoint = "/mos6502" /\ payload.width # 8
    \/ endpoint = "/x86" /\ payload.width \notin {16, 32, 64}
    \/ endpoint = "/risc_v" /\ payload.width \notin {16, 32}
Cond_Arch ==
    /\ endpoint = "/x86" /\ payload.syntax.some
    /\ to_ascii_lowercase(payload.syntax.str)
           \notin {<<"i","n","t","e","l">>, <<"a","t","t">>, <<"a","t","&","t">>}

\* C6 as stated: when several failure conditions hold, the one reported is the
\* highest in the order UnsupportedOption > Unimplemented > MissingInfo >
\* WrongBitWidth > Arch.
C6_TaxonomyPriority ==
    Cardinality({c \in {<<1, Cond_UnsupportedOption>>, <<2, Cond_Unimplemented>>,
                        <<3, Cond_WrongBitWidth>>, <<4, Cond_Arch>>} : c[2]}) >= 2
        => /\ returned.tag = "Err"
           /\ returned.err.kind =
                 (CASE Cond_UnsupportedOption -> "UnsupportedOption"
                    [] ~Cond_UnsupportedOption /\ Cond_Unimplemented -> "Unimplemented"
                    [] ~Cond_UnsupportedOption /\ ~Cond_Unimplemented /\ Cond_WrongBitWidth
                          -> "WrongBitWidth"
                    [] OTHER -> "Arch")

\* C6 amended: the error reported is the one the handler detects first, the
\* highest in the order Arch(UnsupportedSyntax) > WrongBitWidth >
\* UnsupportedOption or Unimplemented, where only X86 parses a syntax, only X86
\* and RiscV validate the bit width, only Mos6502 and X86 answer
\* UnsupportedOption, only RiscV answers Unimplemented and MissingInfo is never
\* reported.
C6_HandlerOrder ==
    ~Idle =>
        LET width_checked == endpoint \in {"/x86", "/risc_v"} /\ Cond_WrongBitWidth
            arch == Cond_Arch
        IN  /\ arch => returned = Err(Arch(UnsupportedSyntax(payload.syntax.str)))
            /\ (~arch /\ width_checked) => returned = Err(WrongBitWidth(payload.width))
            /\ (~arch /\ ~width_checked /\ Cond_Unimplemented)
                   => returned = Err(Unimplemented)
            /\ (~arch /\ ~width_checked /\ ~Cond_Unimplemented /\ Cond_UnsupportedOption)
                   => returned = Err(UnsupportedOption)
            /\ returned.tag = "Err" => returned.err.kind # "MissingInfo"

C6_Witness ==
    /\ endpoint = "/x86"
    /\ Cond_Arch /\ Cond_WrongBitWidth /\ Cond_UnsupportedOption
    /\ returned = Err(Arch(UnsupportedSyntax(<<"n","a","s","m">>)))

\* C7: a request naming a bit width outside the architecture's supported
\* subset (Mos6502: 8; X86: 16/32/64; RiscV: 16/32) fails with WrongBitWidth
\* carrying that width, before the byte buffer is inspected.
C7_WrongBitWidthFirst ==
    Cond_WrongBitWidth
        => /\ returned = Err(WrongBitWidth(payload.width))
           /\ result = NotCalled

\* C8: UnsupportedOption and Unimplemented are answered in the 'not
\* implemented' category, WrongBitWidth and MissingInfo in the 'bad request'
\* category, each with the error's description as the body; Arch(e) is
\* answered with the response of e itself.
C8_Classification ==
    /\ DisasmError_into_response(MissingInfo)
           = [status |-> BAD_REQUEST,
              body |-> [kind |-> "Json", value |-> <<"Missing disassembler option">>]]
    /\ returned.tag = "Err" =>
           LET e == returned.err
           IN  /\ e.kind = "UnsupportedOption"
                      => response = [status |-> NOT_IMPLEMENTED,
                                     body |-> [kind |-> "Json",
                                               value |-> <<"Unsupported disassembler option">>]]
               /\ e.kind = "Unimplemented"
                      => response = [status |-> NOT_IMPLEMENTED,
                                     body |-> [kind |-> "Json",
                                               value |-> <<"The implementation has not been done">>]]
               /\ e.kind = "WrongBitWidth"
                      => response = [status |-> BAD_REQUEST,
                                     body |-> [kind |-> "Json",
                                               value |-> <<"Invalid architecture bit width: ">>
                                                         \o BitWidth_fmt(e.width)]]
               /\ e.kind = "Arch" => response = Error_into_response(e.arch)

C8_Witness ==
    /\ endpoint = "/risc_v"
    /\ returned = Err(WrongBitWidth(64))
    /\ response.status = BAD_REQUEST
    /\ response.body.value = <<"Invalid architecture bit width: ", "6", "4", " ", "b", "i", "t">>

\* C9: the lines returned with upper_case = false equal, line for line, the
\* ASCII-lowercased lines returned with upper_case = true for the same buffer
\* and the same other options.
C9_CaseInvariant ==
    (~Idle /\ returned.tag = "Ok" /\ ~payload.format.upper_case)
        => LET up == Handle(endpoint, [payload EXCEPT !.format.upper_case = TRUE],
                            overflow_checks, truncation).returned
           IN  /\ up.tag = "Ok"
               /\ Len(up.val) = Len(returned.val)
               /\ \A j \in 1..Len(up.val) : returned.val[j] = to_ascii_lowercase(up.val[j])

\* C10: in address mode Start(O) every line of the X86 adapter is the displayed
\* address (natural address + O, computed without overflow or wrap) in
\* zero-padded hexadecimal of one digit count for all lines, one space and the
\* rendered instruction; in address mode None it is the rendered instruction.
C10_AddressPrefix ==
    (Called("X86") /\ ~Rejected)
        => /\ result.tag = "Ok"
           /\ \A j \in 1..Len(result.val) :
                  LET instruction == X86_decoded[j]
                      first == X86_format(adapter.val, X86_decoded[1],
                                          payload.format.upper_case)
                      text == X86_format(adapter.val, instruction, payload.format.upper_case)
                  IN  IF payload.format.address.tag = "None" THEN result.val[j] = text
                      ELSE LET sum == U64Add(payload.format.address.offset, instruction.ip)
                               digits == StripZeros(Hex16(IF payload.format.upper_case
                                                          THEN HexUpper ELSE HexLower,
                                                          sum.val), 8)
                           IN  /\ ~sum.overflow
                               /\ Len(digits) = Len(result.val[1]) - Len(first) - 3
                               /\ result.val[j] = <<"0","x">> \o digits \o <<" ">> \o text

\* the syntax the last x86 request selects: "none" for an unrecognized string
X86_selected ==
    IF ~payload.syntax.some THEN Intel
    ELSE LET l == to_ascii_lowercase(payload.syntax.str)
         IN  CASE l = <<"i","n","t","e","l">> -> Intel
               [] l \in {<<"a","t","t">>, <<"a","t","&","t">>} -> Att
               [] OTHER -> "none"

\* C11: the x86 syntax string is matched without regard to case: "intel"
\* selects Intel, "att" and "at&t" select Att, any other string fails with
\* Arch(UnsupportedSyntax) carrying the string as sent, before the adapter is
\* built or the buffer inspected; only an absent selector falls back to Intel.
C11_SyntaxSelection ==
    endpoint = "/x86"
        => IF X86_selected = "none"
           THEN /\ returned = Err(Arch(UnsupportedSyntax(payload.syntax.str)))
                /\ adapter = NotCalled
                /\ result = NotCalled
           ELSE /\ adapter.tag # "NotCalled"
                /\ ~(returned.tag = "Err" /\ returned.err.kind = "Arch")
                /\ adapter.tag = "Ok" => adapter.val.syntax = X86_selected

C11_Witness ==
    /\ endpoint = "/x86"
    /\ payload.syntax = SomeSyntax(<<"N","a","s","m">>)
    /\ payload.bytes # <<>>
    /\ payload.width = 64
    /\ returned = Err(Arch(UnsupportedSyntax(<<"N","a","s","m">>)))
    /\ result = NotCalled

\* a < b for 64-bit values held as limbs
U64Less(a, b) == \E k \in 1..4 : a[k] < b[k] /\ \A m \in (k + 1)..4 : a[m] = b[m]

\* the address of the j-th decoded x86 instruction under the last request's
\* address mode: the natural address, plus the start offset when one is set
X86_address(j) ==
    IF payload.format.address.tag = "None" THEN U64(X86_decoded[j].ip)
    ELSE U64Add(payload.format.address.offset, X86_decoded[j].ip).val

\* C12: the lines of one successful invocation are in strictly ascending
\* instruction-address order, no two lines sharing an address, for every buffer
\* and every start offset.
C12_StrictlyAscending ==
    /\ (Called("Mos6502") /\ result.tag = "Ok")
           => \A j, k \in 1..Len(result.val) :
                  j < k => Mos6502_decoded[j].addr < Mos6502_decoded[k].addr
    /\ (Called("X86") /\ result.tag = "Ok")
           => \A j, k \in 1..Len(result.val) :
                  j < k => U64Less(X86_address(j), X86_address(k))

\* a line of the last request without its address prefix: what follows the
\* first space when addresses are shown
AfterAddress(line) ==
    IF payload.format.address.tag = "None" THEN line
    ELSE LET sp == CHOOSE i \in 1..Len(line) :
                       line[i] = " " /\ \A k \in 1..(i - 1) : line[k] # " "
         IN  SubSeq(line, sp + 1, Len(line))

\* C13: the X86 adapter compares stop_at with the natural decode address, not
\* with the displayed one: whatever the address mode, a returning invocation
\* emits the instructions that the same buffer and stop_at give with no
\* addresses shown, and only the address prefix of the lines differs.
C13_StopOnNaturalAddress ==
    (Called("X86") /\ result.tag = "Ok")
        => LET plain == X86_disassemble(adapter.val, payload.bytes,
                                        [payload.format EXCEPT !.address = ShowAddress_None],
                                        overflow_checks)
           IN  /\ plain.tag = "Ok"
               /\ Len(plain.val) = Len(result.val)
               /\ \A j \in 1..Len(plain.val) : AfterAddress(result.val[j]) = plain.val[j]

C13_Witness ==
    /\ Called("X86") /\ result.tag = "Ok"
    /\ payload.format.address.tag = "Start"
    /\ payload.format.address.offset = <<Limb - 1, Limb - 1, 0, 0>>
    /\ payload.format.stop_at.some /\ payload.format.stop_at.val = 1
    /\ Len(result.val) = 1
    /\ Len(X86_decoded) > 1

\* C14: a request that fails with any DisasmError, Arch(UnsupportedSyntax)
\* included, is answered in an error category and never with the success
\* status of a listing.
C14_ErrorsAreNotSuccess ==
    returned.tag = "Err"
        => /\ response.status \in {NOT_IMPLEMENTED, BAD_REQUEST}
           /\ response.status # OK

====
